---- MODULE Spec2Model ----
(***************************************************************************)
(* Model of TicketsExtraction/extract.py: the paginated Jira fetch         *)
(* (fetch_jira_issues), the field normalisers, the work-time               *)
(* aggregation (calculer_temps_par_collaborateur, convert_seconds_to_hm)   *)
(* and the flattening of issues into rows (save_to_csv), as called by main.*)
(***************************************************************************)
EXTENDS Integers, Sequences, FiniteSets, TLC

VARIABLES
    pc,              \* position of the program
    max_issues,      \* argument of fetch_jira_issues: None or a number
    svc_total,       \* number of issues the service holds for the query
    total_to_fetch,  \* line 59
    all_issues,      \* line 23: positions, in the service's result list, of the issues held
    start_at,        \* line 25
    inflight,        \* payloads posted and not yet answered
    requests,        \* every request posted so far, with its outcome
    issues,          \* main's variable: what fetch_jira_issues returned
    fn,              \* the function a direct call applies
    arg,             \* its argument
    out              \* its result (a value, or a raised exception)

vars == <<pc, max_issues, svc_total, total_to_fetch, all_issues,
          start_at, inflight, requests, issues, fn, arg, out>>

(***************************************************************************)
(* Python values.  Every value is a record tagged by its type; a raised    *)
(* exception is a value too, and every operation propagates it.            *)
(***************************************************************************)
None == [t |-> "none"]
Str(s) == [t |-> "str", v |-> s]
Num(n) == [t |-> "int", v |-> n]
Dict(d) == [t |-> "dict", v |-> d]
List(l) == [t |-> "list", v |-> l]
Raise(e) == [t |-> "raise", v |-> e]
EmptyDict == Dict(<<>>)
EmptyList == List(<<>>)

IsRaise(x) == x.t = "raise"

\* bool(x)
Truthy(x) ==
    CASE x.t = "none" -> FALSE
      [] x.t = "str" -> x.v # ""
      [] x.t = "int" -> x.v # 0
      [] x.t = "dict" -> DOMAIN x.v # {}
      [] x.t = "list" -> Len(x.v) > 0
      [] OTHER -> FALSE

\* x.get(k, d): only a dict has .get
PyGet(x, k, d) ==
    IF IsRaise(x) THEN x
    ELSE IF x.t = "dict" THEN (IF k \in DOMAIN x.v THEN x.v[k] ELSE d)
    ELSE Raise("AttributeError")

\* x.get(k): the default is None
PyGet1(x, k) == PyGet(x, k, None)

\* k in x, for a string k
PyIn(k, x) ==
    CASE x.t = "dict" -> k \in DOMAIN x.v
      [] x.t = "list" -> \E i \in 1..Len(x.v) : x.v[i] = Str(k)
      [] OTHER -> FALSE

\* whether "k in x" raises (None and numbers are not containers)
PyInRaises(x) == x.t \in {"none", "int"}

\* a dict in insertion order, as Python keeps it: a sequence of <<key, value>>
OrderedDict(kvs) == [t |-> "odict", v |-> kvs]

\* repr(x) of a key or a value of such a dict
Repr(x) ==
    CASE x.t = "str" -> "'" \o x.v \o "'"
      [] x.t = "none" -> "None"
      [] x.t = "int" -> ToString(x.v)
      [] OTHER -> "?"

RECURSIVE ItemsText(_, _)
ItemsText(kvs, i) ==
    IF i > Len(kvs) THEN ""
    ELSE Repr(kvs[i][1]) \o ": " \o Repr(kvs[i][2])
         \o (IF i < Len(kvs) THEN ", " ELSE "") \o ItemsText(kvs, i + 1)

\* f"{x}" of a value
Format(x) ==
    CASE x.t = "str" -> x.v
      [] x.t = "none" -> "None"
      [] x.t = "int" -> ToString(x.v)
      [] x.t = "odict" -> "{" \o ItemsText(x.v, 1) \o "}"
      [] OTHER -> "?"

\* sep.join(xs) for a sequence xs of values: every item must be a str
RECURSIVE JoinFrom(_, _, _)
JoinFrom(sep, xs, i) ==
    IF i > Len(xs) THEN ""
    ELSE xs[i].v \o (IF i < Len(xs) THEN sep ELSE "") \o JoinFrom(sep, xs, i + 1)
Join(sep, xs) ==
    IF \E i \in 1..Len(xs) : IsRaise(xs[i])
    THEN xs[CHOOSE i \in 1..Len(xs) : IsRaise(xs[i]) /\ \A j \in 1..(i - 1) : ~IsRaise(xs[j])]
    ELSE IF \E i \in 1..Len(xs) : xs[i].t # "str" THEN Raise("TypeError")
    ELSE Str(JoinFrom(sep, xs, 1))

Min(a, b) == IF a < b THEN a ELSE b

\* the first exception raised among the values computed in order, else result
Try(computed, result) ==
    IF \E i \in 1..Len(computed) : IsRaise(computed[i])
    THEN computed[CHOOSE i \in 1..Len(computed) :
                     IsRaise(computed[i]) /\ \A j \in 1..(i - 1) : ~IsRaise(computed[j])]
    ELSE result

\* what "for item in x" iterates over when x is a list; any other value met
\* here is None or a number, which cannot be iterated
Iterable(x) == x.t = "list"

(***************************************************************************)
(* The field normalisers, lines 139-258.                                   *)
(***************************************************************************)
\* lines 156-159: one comment
FormatComment(comment) ==
    LET author == PyGet(PyGet(comment, "author", EmptyDict), "displayName", Str("Unknown"))
        created == PyGet(comment, "created", Str("Unknown date"))
        body == PyGet(comment, "body", Str("No content"))
    IN  Try(<<author, created, body>>,
            Str("[" \o Format(created) \o "] " \o Format(author) \o ": " \o Format(body)))

\* lines 139-162
process_comments(comment_field) ==
    IF ~Truthy(comment_field) THEN Str("")
    ELSE LET comments == PyGet1(comment_field, "comments")
         IN  IF IsRaise(comments) THEN comments
             ELSE IF ~Truthy(comments) THEN Str("")
             ELSE IF ~Iterable(comments) THEN Raise("TypeError")
             ELSE Join("\n---\n", [i \in 1..Len(comments.v) |-> FormatComment(comments.v[i])])

\* lines 193-194 and 221-222: the status name of a linked issue or a subtask
StatusOf(issue) ==
    IF PyInRaises(issue) THEN Raise("TypeError")
    ELSE IF PyIn("fields", issue)
    THEN PyGet(PyGet(PyGet(issue, "fields", EmptyDict), "status", EmptyDict),
               "name", Str("Unknown status"))
    ELSE Str("Unknown status")

\* lines 195-196 and 223: its summary
SummaryOf(issue) ==
    IF PyInRaises(issue) THEN Raise("TypeError")
    ELSE IF PyIn("fields", issue)
    THEN PyGet(PyGet(issue, "fields", EmptyDict), "summary", Str("No summary"))
    ELSE Str("No summary")

\* lines 181-190: which end of a link is followed, "" when it has neither
Direction(link) ==
    IF PyIn("outwardIssue", link) THEN "outward"
    ELSE IF PyIn("inwardIssue", link) THEN "inward"
    ELSE ""

\* lines 181-199: one link, None when the link is skipped
FormatLink(link) ==
    IF PyInRaises(link) THEN Raise("TypeError")
    ELSE IF Direction(link) = "" THEN None
    ELSE LET direction == Direction(link)
             relation == PyGet(PyGet(link, "type", EmptyDict), direction,
                               Str(IF direction = "outward" THEN "relates to"
                                                            ELSE "is related to by"))
             linked_issue == PyGet(link, direction \o "Issue", EmptyDict)
             key == PyGet(linked_issue, "key", Str("Unknown"))
             status == StatusOf(linked_issue)
             summary == SummaryOf(linked_issue)
         IN  Try(<<relation, linked_issue, key, status, summary>>,
                 Str(direction \o ": " \o Format(relation) \o " " \o Format(key)
                     \o " [" \o Format(status) \o "] - " \o Format(summary)))

\* the items of xs that are not None, in order
RECURSIVE Kept(_)
Kept(xs) ==
    IF xs = <<>> THEN <<>>
    ELSE (IF Head(xs) = None THEN <<>> ELSE <<Head(xs)>>) \o Kept(Tail(xs))

\* lines 165-201
process_issue_links(issuelinks) ==
    IF ~Truthy(issuelinks) THEN Str("")
    ELSE IF ~Iterable(issuelinks) THEN Raise("TypeError")
    ELSE Join("\n", Kept([i \in 1..Len(issuelinks.v) |-> FormatLink(issuelinks.v[i])]))

\* lines 220-225: one subtask
FormatSubtask(subtask) ==
    LET key == PyGet(subtask, "key", Str("Unknown"))
        status == StatusOf(subtask)
        summary == SummaryOf(subtask)
    IN  Try(<<key, status, summary>>,
            Str(Format(key) \o " [" \o Format(status) \o "] - " \o Format(summary)))

\* lines 204-228
process_subtasks(subtasks) ==
    IF ~Truthy(subtasks) THEN Str("")
    ELSE IF ~Iterable(subtasks) THEN Raise("TypeError")
    ELSE Join("\n", [i \in 1..Len(subtasks.v) |-> FormatSubtask(subtasks.v[i])])

\* lines 231-244
process_fix_versions(fix_versions) ==
    IF ~Truthy(fix_versions) THEN Str("")
    ELSE IF ~Iterable(fix_versions) THEN Raise("TypeError")
    ELSE Join(", ", [i \in 1..Len(fix_versions.v) |->
                        PyGet(fix_versions.v[i], "name", Str("Unknown"))])

\* lines 245-258
process__versions(versions) ==
    IF ~Truthy(versions) THEN Str("")
    ELSE IF ~Iterable(versions) THEN Raise("TypeError")
    ELSE Join(", ", [i \in 1..Len(versions.v) |->
                        PyGet(versions.v[i], "name", Str("Unknown"))])

(***************************************************************************)
(* The work-time aggregation, lines 291-334.                               *)
(***************************************************************************)
\* line 301
Hours(seconds) == seconds \div 3600

\* a change of Minutes: the hours are not taken out
Minutes_NoModulo(seconds) == seconds \div 60

\* line 302
Minutes(seconds) == (seconds % 3600) \div 60

\* lines 291-303, for a number of seconds
convert_seconds_to_hm(seconds) ==
    Str(ToString(Hours(seconds)) \o "h " \o ToString(Minutes(seconds)) \o "m")

\* line 321: the key an entry is accounted under
AuthorOf(entry) ==
    PyGet(PyGet(entry, "author", EmptyDict), "displayName", Str("Inconnu"))

\* line 322: the seconds an entry adds
SecondsOf(entry) == PyGet(entry, "timeSpentSeconds", Num(0))

\* a change of Added: the entry replaces the total instead of adding to it
Added_Overwrites(totals, author, seconds) ==
    IF \E i \in 1..Len(totals) : totals[i][1] = author
    THEN [i \in 1..Len(totals) |->
            IF totals[i][1] = author THEN <<author, seconds>> ELSE totals[i]]
    ELSE Append(totals, <<author, seconds>>)

\* line 325: temps_par_collaborateur[author] += time_spent_seconds, on the
\* dict kept as a sequence of <<author, seconds>> in insertion order
Added(totals, author, seconds) ==
    IF \E i \in 1..Len(totals) : totals[i][1] = author
    THEN [i \in 1..Len(totals) |->
            IF totals[i][1] = author THEN <<author, totals[i][2] + seconds>> ELSE totals[i]]
    ELSE Append(totals, <<author, seconds>>)

\* lines 317-325: the loop over the entries from the i-th on; an exception
\* ends it
RECURSIVE Accumulate(_, _, _)
Accumulate(entries, i, totals) ==
    IF i > Len(entries) THEN OrderedDict(totals)
    ELSE LET author == AuthorOf(entries[i])
             seconds == SecondsOf(entries[i])
         IN  IF IsRaise(author) THEN author
             ELSE IF IsRaise(seconds) THEN seconds
             ELSE IF author.t \notin {"str", "none", "int"} THEN Raise("TypeError")
             ELSE IF seconds.t # "int" THEN Raise("TypeError")
             ELSE Accumulate(entries, i + 1, Added(totals, author, seconds.v))

\* lines 305-334
calculer_temps_par_collaborateur(worklog) ==
    IF IsRaise(worklog) THEN worklog
    ELSE IF ~Iterable(worklog) THEN Raise("TypeError")
    ELSE LET temps_par_collaborateur == Accumulate(worklog.v, 1, <<>>)
         IN  IF IsRaise(temps_par_collaborateur) THEN temps_par_collaborateur
             ELSE OrderedDict([i \in 1..Len(temps_par_collaborateur.v) |->
                     <<temps_par_collaborateur.v[i][1],
                       convert_seconds_to_hm(temps_par_collaborateur.v[i][2])>>])

(***************************************************************************)
(* save_to_csv, lines 335-445.                                             *)
(***************************************************************************)
\* fields.get(f, {}).get(sub, d) if fields.get(f) else otherwise
Nested(fields, f, sub, d, otherwise) ==
    IF Truthy(PyGet1(fields, f)) THEN PyGet(PyGet(fields, f, EmptyDict), sub, d)
    ELSE otherwise

\* line 379
LabelsOf(fields) ==
    LET labels == PyGet(fields, "labels", EmptyList)
    IN  IF ~Iterable(labels) THEN Raise("TypeError") ELSE Join(", ", labels.v)

\* line 380
ComponentsOf(fields) ==
    LET components == PyGet(fields, "components", EmptyList)
    IN  IF ~Iterable(components) THEN Raise("TypeError")
        ELSE Join(", ", [i \in 1..Len(components.v) |->
                            PyGet(components.v[i], "name", Str(""))])

\* lines 348-438: the row of one issue, or the exception raised on the way
processed_issue(issue) ==
    LET key == PyGet(issue, "key", Str(""))
        fields == PyGet(issue, "fields", EmptyDict)
    IN  IF IsRaise(key) THEN key
        ELSE IF fields.t # "dict" THEN Raise("AttributeError")
        ELSE
        LET issue_type == Nested(fields, "issuetype", "name", Str(""), Str(""))
            summary == PyGet(fields, "summary", Str(""))
            description == PyGet(fields, "description", Str(""))
            status == Nested(fields, "status", "name", Str(""), Str(""))
            priority == Nested(fields, "priority", "name", Str(""), Str(""))
            created == PyGet(fields, "created", Str(""))
            updated == PyGet(fields, "updated", Str(""))
            reporter == Nested(fields, "reporter", "displayName", Str(""), Str(""))
            assignee == Nested(fields, "assignee", "displayName", Str(""), Str(""))
            resolution == Nested(fields, "resolution", "name", Str(""), Str("Unresolved"))
            resolution_date == PyGet(fields, "resolutiondate", Str(""))
            release_note == PyGet(fields, "customfield_13570", Str(""))
            target_version == PyGet1(fields, "customfield_13751")
            labels == LabelsOf(fields)
            components == ComponentsOf(fields)
            versions == process__versions(PyGet(fields, "versions", EmptyList))
            fix_versions == process_fix_versions(PyGet(fields, "fixVersions", EmptyList))
            module_feature == PyGet1(fields, "customfield_19850")
            issue_links == process_issue_links(PyGet(fields, "issuelinks", EmptyList))
            subtasks == process_subtasks(PyGet(fields, "subtasks", EmptyList))
            parent == Nested(fields, "parent", "key", Str(""), Str(""))
            due_date == PyGet(fields, "duedate", Str(""))
            watches == Nested(fields, "watches", "watchCount", Num(0), Num(0))
            comments == process_comments(PyGet1(fields, "comment"))
            worklog == calculer_temps_par_collaborateur(
                           PyGet(PyGet(fields, "worklog", EmptyDict), "worklogs", EmptyList))
        IN  Try(<<issue_type, summary, description, status, priority, created, updated,
                  reporter, assignee, resolution, resolution_date, release_note,
                  target_version, labels, components, versions, fix_versions,
                  module_feature, issue_links, subtasks, parent, due_date, watches,
                  comments, worklog>>,
                List(<<<<"Key", key>>, <<"Type", issue_type>>, <<"Summary", summary>>,
                       <<"Description", description>>, <<"Status", status>>,
                       <<"Resolution", resolution>>, <<"Resolution Date", resolution_date>>,
                       <<"Release Note", release_note>>, <<"Priority", priority>>,
                       <<"Created", created>>, <<"Updated", updated>>,
                       <<"Due Date", due_date>>, <<"Reporter", reporter>>,
                       <<"Assignee", assignee>>, <<"Labels", labels>>,
                       <<"Components", components>>, <<"Versions", versions>>,
                       <<"Fix Versions", fix_versions>>, <<"Target Version", target_version>>,
                       <<"Parent Issue", parent>>, <<"Watchers", watches>>,
                       <<"Issue Links", issue_links>>, <<"Subtasks", subtasks>>,
                       <<"Comments", comments>>, <<"Module-Feature", module_feature>>,
                       <<"Worklog", worklog>>>>))

\* lines 344-444: the rows written, one per issue in order, or the exception
\* that ends the call before anything is written
save_to_csv(issue_list) ==
    LET processed_issues == [i \in 1..Len(issue_list) |-> processed_issue(issue_list[i])]
    IN  Try(processed_issues, List(processed_issues))

(***************************************************************************)
(* fetch_jira_issues, called by main.                                      *)
(*                                                                         *)
(* The service holds svc_total issues for the query, in a fixed order; an  *)
(* issue is named by its position in that order.  A page request is        *)
(* answered from the requested startAt on; how many issues the answer      *)
(* holds is the service's choice.                                          *)
(***************************************************************************)
batch_size == 100

\* the largest number of issues the service holds
MaxTotal == 250
\* the size of a page that is shorter than requested
ShortPage == 20

TotalChoices == {0, 1, batch_size, batch_size + 1, MaxTotal}
\* max_issues is None or a number of issues
MaxIssuesChoices == {None, Num(0), Num(1), Num(batch_size + ShortPage), Num(MaxTotal + 1)}

\* line 28
fetch_all == max_issues = None

\* a change of TotalToFetch: the maximum is ignored
TotalToFetch_IgnoresMax(total_available) == total_available

\* line 59
TotalToFetch(total_available) ==
    IF fetch_all THEN total_available ELSE Min(max_issues.v, total_available)

\* a change of LoopCond: the loop goes on when the target is reached
LoopCond_Inclusive == Len(all_issues) <= total_to_fetch.v

\* line 67: the loop's condition
LoopCond == Len(all_issues) < total_to_fetch.v

\* a change of PageMaxResults: the last page is not capped
PageMaxResults_NoCap == batch_size

\* line 72
PageMaxResults == Min(batch_size, total_to_fetch.v - Len(all_issues))

\* lines 41-44
initial_payload == [kind |-> "probe", maxResults |-> 0]

\* lines 69-100
payload == [kind |-> "page", startAt |-> start_at, maxResults |-> PageMaxResults]

\* the issues the service answers a page request with: n issues from startAt on
PageIssues(p, n) == [i \in 1..n |-> p.startAt + i]

\* how many issues an answer to page request p may hold: none, a short page,
\* what was asked for, or one more than was asked for
PageSizes(p) ==
    {n \in {0, ShortPage, Min(p.maxResults, svc_total - p.startAt), p.maxResults + 1} :
        0 <= n /\ n <= svc_total - p.startAt}

Answered(status, n) ==
    [requests EXCEPT ![Len(requests)] = [@ EXCEPT !.status = status, !.returned = n]]

Posted(p) == Append(requests, p @@ [status |-> "pending", returned |-> 0])

\* lines 22-29
Init ==
    /\ pc = "probe"
    /\ max_issues \in MaxIssuesChoices
    /\ svc_total \in TotalChoices
    /\ total_to_fetch = None
    /\ all_issues = <<>>
    /\ start_at = 0
    /\ inflight = {}
    /\ requests = <<>>
    /\ issues = <<>>
    /\ fn = "main"
    /\ arg = None
    /\ out = None

\* lines 47-51: the count probe is posted
PostProbe ==
    /\ pc = "probe"
    /\ inflight' = inflight \cup {initial_payload}
    /\ requests' = Posted(initial_payload)
    /\ pc' = "probe_wait"
    /\ UNCHANGED <<max_issues, svc_total, total_to_fetch, all_issues, start_at, issues,
                   fn, arg, out>>

\* lines 58-60: the probe is answered 200 with the total
ProbeOk ==
    /\ pc = "probe_wait"
    /\ inflight' = inflight \ {initial_payload}
    /\ requests' = Answered("ok", 0)
    /\ total_to_fetch' = Num(TotalToFetch(svc_total))
    /\ pc' = "loop"
    /\ UNCHANGED <<max_issues, svc_total, all_issues, start_at, issues, fn, arg, out>>

\* a change of ProbeFail: the failure is reported and the function goes on
ProbeFail_GoesOn ==
    /\ pc = "probe_wait"
    /\ \E status \in {"error", "exception"} : requests' = Answered(status, 0)
    /\ inflight' = inflight \ {initial_payload}
    /\ total_to_fetch' = Num(TotalToFetch(svc_total))
    /\ pc' = "loop"
    /\ UNCHANGED <<max_issues, svc_total, all_issues, start_at, issues, fn, arg, out>>

\* lines 53-56 and 62-64: the probe is answered with another status, or the
\* transport (or the reading of the total) raises; all_issues, still empty,
\* is returned
ProbeFail ==
    /\ pc = "probe_wait"
    /\ \E status \in {"error", "exception"} : requests' = Answered(status, 0)
    /\ inflight' = inflight \ {initial_payload}
    /\ issues' = all_issues
    /\ pc' = "returned"
    /\ UNCHANGED <<max_issues, svc_total, total_to_fetch, all_issues, start_at, fn, arg, out>>

\* lines 67-108: the loop goes on and the next page request is posted
PostPage ==
    /\ pc = "loop"
    /\ LoopCond
    /\ inflight' = inflight \cup {payload}
    /\ requests' = Posted(payload)
    /\ pc' = "page_wait"
    /\ UNCHANGED <<max_issues, svc_total, total_to_fetch, all_issues, start_at, issues,
                   fn, arg, out>>

\* lines 67, 137: the loop's condition fails and all_issues is returned
LoopExit ==
    /\ pc = "loop"
    /\ ~LoopCond
    /\ issues' = all_issues
    /\ pc' = "returned"
    /\ UNCHANGED <<max_issues, svc_total, total_to_fetch, all_issues, start_at, inflight,
                   requests, fn, arg, out>>

\* a change of NextStartAt: the page is taken to be full
NextStartAt_FullPage(n) == start_at + batch_size

\* line 125
NextStartAt(n) == start_at + n

\* lines 111-128: a page is answered 200 with n > 0 issues
PageOk ==
    /\ pc = "page_wait"
    /\ \E p \in inflight : \E n \in PageSizes(p) \ {0} :
          /\ inflight' = inflight \ {p}
          /\ requests' = Answered("ok", n)
          /\ all_issues' = all_issues \o PageIssues(p, n)
          /\ start_at' = NextStartAt(n)
    /\ pc' = "loop"
    /\ UNCHANGED <<max_issues, svc_total, total_to_fetch, issues, fn, arg, out>>

\* lines 115-117, 137: a page is answered 200 with no issue
PageEmpty ==
    /\ pc = "page_wait"
    /\ \E p \in inflight : 0 \in PageSizes(p) /\ inflight' = inflight \ {p}
    /\ requests' = Answered("ok", 0)
    /\ issues' = all_issues
    /\ pc' = "returned"
    /\ UNCHANGED <<max_issues, svc_total, total_to_fetch, all_issues, start_at, fn, arg, out>>

\* a change of KeptOnPageFailure: a failed page empties the result, as a
\* failed probe does
KeptOnPageFailure_Nothing == <<>>

\* what a failed page leaves to return: what was accumulated (lines 132, 135, 137)
KeptOnPageFailure == all_issues

\* lines 129-137: a page is answered with another status, or the transport
\* raises; the loop is left and all_issues returned
PageFail ==
    /\ pc = "page_wait"
    /\ \E status \in {"error", "exception"} : requests' = Answered(status, 0)
    /\ \E p \in inflight : inflight' = inflight \ {p}
    /\ issues' = KeptOnPageFailure
    /\ pc' = "returned"
    /\ UNCHANGED <<max_issues, svc_total, total_to_fetch, all_issues, start_at, fn, arg, out>>

\* the issue at position i of the service's result list, as the service
\* returns it for the requested fields: unset fields are null or empty lists
SvcIssue(i) ==
    LET key == Str("DHRD-" \o ToString(i))
        person == Dict([displayName |-> Str("Bob")])
    IN  CASE i % 3 = 0 ->
               Dict([key |-> key,
                     fields |-> Dict([summary |-> Str("s"), description |-> None,
                                      issuetype |-> Dict([name |-> Str("Bug")]),
                                      status |-> Dict([name |-> Str("Open")]),
                                      priority |-> None, assignee |-> None,
                                      reporter |-> person, resolution |-> None,
                                      resolutiondate |-> None, labels |-> EmptyList,
                                      components |-> EmptyList, versions |-> EmptyList,
                                      fixVersions |-> EmptyList, issuelinks |-> EmptyList,
                                      subtasks |-> EmptyList, duedate |-> None,
                                      watches |-> Dict([watchCount |-> Num(0)]),
                                      comment |-> Dict([comments |-> EmptyList]),
                                      worklog |-> Dict([worklogs |-> EmptyList])])])
          [] i % 3 = 1 ->
               Dict([key |-> key,
                     fields |-> Dict([summary |-> Str("t"),
                                      status |-> Dict([name |-> Str("Done")]),
                                      resolution |-> Dict([name |-> Str("Fixed")]),
                                      labels |-> List(<<Str("a"), Str("b")>>),
                                      components |-> List(<<Dict([name |-> Str("UI")])>>),
                                      fixVersions |-> List(<<Dict([name |-> Str("1.0")])>>),
                                      subtasks |-> List(<<Dict([key |-> Str("DHRD-0")])>>),
                                      watches |-> Dict([watchCount |-> Num(2)]),
                                      comment |-> Dict([comments |-> List(<<
                                          Dict([author |-> person, created |-> Str("2024-01-01"),
                                                body |-> Str("hi")])>>)]),
                                      worklog |-> Dict([worklogs |-> List(<<
                                          Dict([author |-> person,
                                                timeSpentSeconds |-> Num(3661)])>>)])])])
          [] OTHER -> Dict([key |-> key, fields |-> EmptyDict])

\* line 467, with lines 344-444: main saves what fetch_jira_issues returned
Save ==
    /\ pc = "returned"
    /\ out' = save_to_csv([i \in 1..Len(issues) |-> SvcIssue(issues[i])])
    /\ pc' = "saved"
    /\ UNCHANGED <<max_issues, svc_total, total_to_fetch, all_issues, start_at, inflight,
                   requests, issues, fn, arg>>

Next ==
    \/ PostProbe
    \/ ProbeOk
    \/ ProbeFail
    \/ PostPage
    \/ LoopExit
    \/ PageOk
    \/ PageEmpty
    \/ PageFail
    \/ Save

Spec == Init /\ [][Next]_vars

\* the steps of fetch_jira_issues
FetchStep ==
    PostProbe \/ ProbeOk \/ ProbeFail \/ PostPage \/ LoopExit \/ PageOk \/ PageEmpty \/ PageFail

\* fetch_jira_issues runs on while it can: every request posted is answered
\* or raises, and every other step of the function is taken
FairSpec == Spec /\ WF_vars(FetchStep)

(***************************************************************************)
(* Properties of fetch_jira_issues.  requests[1] is the count probe, and   *)
(* requests[k + 2] the k-th page request (k = 0, 1, ...).                  *)
(***************************************************************************)
Pages == 2..Len(requests)
Returned == pc \in {"returned", "saved"}
Failed(i) == requests[i].status \in {"error", "exception"}
ProbeSucceeded == Len(requests) >= 1 /\ requests[1].status = "ok"

\* the number of issues received in the answers to requests 2..i
RECURSIVE ReceivedCount(_)
ReceivedCount(i) == IF i < 2 THEN 0 ELSE ReceivedCount(i - 1) + requests[i].returned

\* the issues received in the answers to requests 2..i, in the order received
RECURSIVE Received(_)
Received(i) ==
    IF i < 2 THEN <<>>
    ELSE Received(i - 1) \o PageIssues(requests[i], requests[i].returned)

\* every page request so far has been answered 200 with as many issues as it
\* asked for, or is still awaited
EveryPageFull ==
    \A i \in Pages : \/ requests[i].status = "pending"
                     \/ requests[i].status = "ok" /\ requests[i].returned = requests[i].maxResults

\* no answer held more issues than were asked for
NoPageOverfull == \A i \in Pages : requests[i].returned <= requests[i].maxResults

\* C1: with no maximum, a total of T and every page answered in full, the
\* k-th page request has startAt = 100*k and maxResults = min(100, T - 100*k),
\* and when the function returns exactly ceil(T/100) page requests were made;
\* for T = 250: three, from 0, 100 and 200, the last for 50 issues
C1_PageRequests ==
    (max_issues = None /\ ProbeSucceeded /\ EveryPageFull) =>
        /\ \A i \in Pages :
              /\ requests[i].startAt = 100 * (i - 2)
              /\ requests[i].maxResults = Min(100, svc_total - 100 * (i - 2))
        /\ Returned => Len(requests) - 1 = (svc_total + 99) \div 100
        /\ (Returned /\ svc_total = 250) =>
              /\ Len(requests) = 4
              /\ <<requests[2].startAt, requests[3].startAt, requests[4].startAt>> = <<0, 100, 200>>
              /\ requests[4].maxResults <= 50

C1_Witness ==
    /\ pc = "returned"
    /\ max_issues = None
    /\ svc_total = 250
    /\ EveryPageFull
    /\ Len(requests) = 4
    /\ requests[4].startAt = 200
    /\ requests[4].maxResults = 50
    /\ Len(issues) = 250

\* C2: when a page request fails, by its status or by an exception, it is the
\* last request made, and the function returns exactly the issues received
\* before it, in the order received; save_to_csv then writes as many rows
C2_PartialOnPageFailure ==
    \A i \in Pages : Failed(i) =>
        /\ i = Len(requests)
        /\ Returned
        /\ inflight = {}
        /\ issues = Received(i - 1)
        /\ Len(issues) = ReceivedCount(i - 1)
        /\ pc = "saved" => out.t = "list" /\ Len(out.v) = Len(issues)

C2_Witness ==
    /\ pc = "saved"
    /\ Failed(Len(requests))
    /\ Len(requests) = 4
    /\ Len(issues) = 120
    /\ out.t = "list"
    /\ Len(out.v) = 120

\* C3: when the count probe fails, by its status or by an exception, no page
\* request is ever made and the function returns the empty list
C3_ProbeFailureAborts ==
    (Len(requests) >= 1 /\ Failed(1)) =>
        /\ Len(requests) = 1
        /\ Returned
        /\ inflight = {}
        /\ issues = <<>>

C3_Witness ==
    /\ pc = "returned"
    /\ requests = <<[kind |-> "probe", maxResults |-> 0, status |-> "error", returned |-> 0]>>
    /\ issues = <<>>
    /\ max_issues = None
    /\ svc_total = 250

\* C4: the target is min(max_issues, total) when a maximum is given and the
\* total otherwise; while no answer holds more than was asked for, no more
\* issues than the target are accumulated; every page request asks for
\* between 1 and 100 issues and for no more than the target less what is
\* accumulated
C4_TargetBound ==
    ProbeSucceeded =>
        /\ total_to_fetch.t = "int"
        /\ total_to_fetch.v = IF max_issues = None THEN svc_total
                              ELSE Min(max_issues.v, svc_total)
        /\ NoPageOverfull => Len(all_issues) <= total_to_fetch.v
        /\ \A i \in Pages :
              /\ 1 <= requests[i].maxResults
              /\ requests[i].maxResults <= 100
              /\ requests[i].maxResults <= total_to_fetch.v - ReceivedCount(i - 1)

C4_Witness ==
    /\ pc = "returned"
    /\ max_issues = Num(120)
    /\ svc_total = 250
    /\ NoPageOverfull
    /\ Len(requests) = 3
    /\ requests[3].maxResults = 20
    /\ Len(all_issues) = 120

\* C5: at most one request is in flight; every page request starts at the
\* number of issues accumulated so far, after the one before it, short pages
\* or not; what is accumulated is a prefix of the service's list, in its
\* order, with no gap and no duplicate
C5_SequentialInOrder ==
    /\ Cardinality(inflight) <= 1
    /\ Cardinality({i \in 1..Len(requests) : requests[i].status = "pending"}) <= 1
    /\ \A i \in Pages :
          /\ requests[i].startAt = ReceivedCount(i - 1)
          /\ i > 2 => requests[i].startAt > requests[i - 1].startAt
    /\ Len(all_issues) <= svc_total
    /\ all_issues = [k \in 1..Len(all_issues) |-> k]

C5_Witness ==
    /\ pc = "page_wait"
    /\ Cardinality(inflight) = 1
    /\ Len(requests) = 4
    /\ requests[2].returned = 20
    /\ requests[3].returned = 20
    /\ requests[4].startAt = 40
    /\ Len(all_issues) = 40

\* every page request made so far was answered 200 with at least one issue
EveryPageNonEmpty ==
    \A i \in Pages : requests[i].status = "ok" /\ requests[i].returned > 0

Absent == [t |-> "absent"]
Opt(k, x) == IF x.t = "absent" THEN <<>> ELSE k :> x

\* the longest list of comments, subtasks or versions
MaxItems == 2
\* the longest list of work-log entries
MaxEntries == 3
\* the largest number of seconds formatted
MaxSeconds == 7300

ListsUpTo(n, items) == UNION {[1..k -> items] : k \in 0..n}

\* an argument that is a list: absent (the caller's default, or None), null,
\* or a list of the items
ListArguments(n, items) == {None} \cup {List(l) : l \in ListsUpTo(n, items)}

AuthorChoices ==
    {Absent, None, EmptyDict, Dict([displayName |-> None]), Dict([displayName |-> Str("Bob")])}

CommentChoices ==
    {Dict(Opt("author", a) @@ Opt("created", c) @@ Opt("body", b)) :
        a \in AuthorChoices, c \in {Absent, None, Str("2024-01-01")},
        b \in {Absent, None, Str("hi")}}

CommentFieldInputs ==
    {None, EmptyDict, Dict([comments |-> None])}
    \cup {Dict([comments |-> List(l)]) : l \in ListsUpTo(MaxItems, CommentChoices)}

StatusChoices ==
    {Absent, None, EmptyDict, Dict([name |-> None]), Dict([name |-> Str("Open")])}

FieldsChoices ==
    {Absent, None}
    \cup {Dict(Opt("status", st) @@ Opt("summary", su)) :
            st \in StatusChoices, su \in {Absent, None, Str("S")}}

\* a linked issue or a subtask
IssueRefChoices ==
    {Dict(Opt("key", k) @@ Opt("fields", f)) :
        k \in {Absent, None, Str("K-1")}, f \in FieldsChoices}

SubtasksInputs == ListArguments(MaxItems, IssueRefChoices)

TypeChoices ==
    {Absent, None, EmptyDict,
     Dict([outward |-> Str("blocks"), inward |-> Str("is blocked by")])}

FullRef ==
    Dict([key |-> Str("K-2"),
          fields |-> Dict([status |-> Dict([name |-> Str("Done")]), summary |-> Str("T")])])

\* a link: one end varies over every linked issue while the other is absent or whole
LinkChoices ==
    {Dict(Opt("type", ty) @@ Opt("outwardIssue", o) @@ Opt("inwardIssue", i)) :
        ty \in TypeChoices, o \in IssueRefChoices \cup {Absent, None}, i \in {Absent, FullRef}}
    \cup {Dict(Opt("type", ty) @@ Opt("inwardIssue", i)) :
            ty \in TypeChoices, i \in IssueRefChoices \cup {None}}

IssueLinksInputs == {None} \cup {List(l) : l \in ListsUpTo(1, LinkChoices)}

VersionChoices == {EmptyDict, Dict([name |-> None]), Dict([name |-> Str("1.0")]),
                   Dict([name |-> Str("2.0")])}

VersionsInputs == ListArguments(MaxItems, VersionChoices)

NormalizerCalls ==
    ({"process_comments"} \X CommentFieldInputs)
    \cup ({"process_issue_links"} \X IssueLinksInputs)
    \cup ({"process_subtasks"} \X SubtasksInputs)
    \cup ({"process_fix_versions", "process__versions"} \X VersionsInputs)

\* a call of function f on a is about to be made
CallInit(calls) ==
    /\ pc = "call"
    /\ \E c \in calls : fn = c[1] /\ arg = c[2]
    /\ out = None
    /\ max_issues = None
    /\ svc_total = 0
    /\ total_to_fetch = None
    /\ all_issues = <<>>
    /\ start_at = 0
    /\ inflight = {}
    /\ requests = <<>>
    /\ issues = <<>>

\* the call returns result, or raises it
Return(f, result) ==
    /\ pc = "call"
    /\ fn = f
    /\ out' = result
    /\ pc' = "ret"
    /\ UNCHANGED <<max_issues, svc_total, total_to_fetch, all_issues, start_at, inflight,
                   requests, issues, fn, arg>>

InitNormalizers == CallInit(NormalizerCalls)

CallProcessComments == Return("process_comments", process_comments(arg))
CallProcessIssueLinks == Return("process_issue_links", process_issue_links(arg))
CallProcessSubtasks == Return("process_subtasks", process_subtasks(arg))
CallProcessFixVersions == Return("process_fix_versions", process_fix_versions(arg))
CallProcessVersions == Return("process__versions", process__versions(arg))

NextNormalizers ==
    \/ CallProcessComments
    \/ CallProcessIssueLinks
    \/ CallProcessSubtasks
    \/ CallProcessFixVersions
    \/ CallProcessVersions

SpecNormalizers == InitNormalizers /\ [][NextNormalizers]_vars

(***************************************************************************)
(* Properties of the field normalisers.                                    *)
(***************************************************************************)
\* C6: each field normaliser returns a string, and never raises, whichever of
\* the list and its nested attributes are absent, null or present
C6_NormalizersTotal == pc = "ret" => out.t = "str"

\* a work-log entry
EntryChoices ==
    {Dict(Opt("author", a) @@ Opt("timeSpentSeconds", d)) :
        a \in {Absent, EmptyDict, Dict([displayName |-> Str("A")]),
               Dict([displayName |-> Str("B")])},
        d \in {Absent, Num(60), Num(1800)}}

WorklogInputs == {List(l) : l \in ListsUpTo(MaxEntries, EntryChoices)}

WorkCalls ==
    ({"calculer_temps_par_collaborateur"} \X WorklogInputs)
    \cup ({"convert_seconds_to_hm"} \X {Num(n) : n \in 0..MaxSeconds})

InitWork == CallInit(WorkCalls)

CallCalculer ==
    Return("calculer_temps_par_collaborateur", calculer_temps_par_collaborateur(arg))
CallConvert == Return("convert_seconds_to_hm", convert_seconds_to_hm(arg.v))

NextWork ==
    \/ CallCalculer
    \/ CallConvert

SpecWork == InitWork /\ [][NextWork]_vars

(***************************************************************************)
(* Properties of the work-time aggregation.                                *)
(***************************************************************************)
\* the display name an entry is accounted under, sentinel when it has no
\* author or its author has no display name
NameOf(entry, sentinel) ==
    IF "author" \in DOMAIN entry.v /\ "displayName" \in DOMAIN entry.v.author.v
    THEN entry.v.author.v.displayName
    ELSE Str(sentinel)

\* the seconds of the entries accounted under name; an entry with no duration
\* adds 0
RECURSIVE SecondsUnder(_, _, _)
SecondsUnder(entries, name, sentinel) ==
    IF entries = <<>> THEN 0
    ELSE (IF NameOf(Head(entries), sentinel) # name THEN 0
          ELSE IF "timeSpentSeconds" \in DOMAIN Head(entries).v
          THEN Head(entries).v.timeSpentSeconds.v ELSE 0)
         + SecondsUnder(Tail(entries), name, sentinel)

\* mapping is exactly: one key per name of the entries, its value the
\* formatted sum of the seconds accounted under it
SumsByAuthor(mapping, entries, sentinel) ==
    /\ mapping.t = "odict"
    /\ \A i, j \in 1..Len(mapping.v) : mapping.v[i][1] = mapping.v[j][1] => i = j
    /\ {mapping.v[i][1] : i \in 1..Len(mapping.v)}
          = {NameOf(entries[i], sentinel) : i \in 1..Len(entries)}
    /\ \A i \in 1..Len(mapping.v) :
          LET total == SecondsUnder(entries, mapping.v[i][1], sentinel)
          IN  mapping.v[i][2] = Str(ToString(total \div 3600) \o "h "
                                    \o ToString((total % 3600) \div 60) \o "m")

CalculerReturned == pc = "ret" /\ fn = "calculer_temps_par_collaborateur"

EntryOf(name, seconds) ==
    Dict([author |-> Dict([displayName |-> Str(name)]), timeSpentSeconds |-> Num(seconds)])

\* C8 as stated: an entry with no author, or no display name, is accounted
\* under "Unknown"
C8_SumsUnderUnknown == CalculerReturned => SumsByAuthor(out, arg.v, "Unknown")

\* C8, amended: the mapping has exactly one key per distinct display name of
\* the entries, its value the formatted sum of their timeSpentSeconds; an
\* entry with no duration adds 0, and an entry with no author, or no display
\* name, is accounted under "Inconnu"; entries A:1800, A:1800, B:60 give
\* {"A": "1h 0m", "B": "0h 1m"}
C8_SumsByAuthor ==
    CalculerReturned =>
        /\ SumsByAuthor(out, arg.v, "Inconnu")
        /\ arg.v = <<EntryOf("A", 1800), EntryOf("A", 1800), EntryOf("B", 60)>> =>
              out.v = <<<<Str("A"), Str("1h 0m")>>, <<Str("B"), Str("0h 1m")>>>>

C8_Witness ==
    /\ CalculerReturned
    /\ arg.v = <<EntryOf("A", 1800), Dict([timeSpentSeconds |-> Num(60)]), EntryOf("A", 1800)>>
    /\ out.v = <<<<Str("A"), Str("1h 0m")>>, <<Str("Inconnu"), Str("0h 1m")>>>>

\* C9: convert_seconds_to_hm renders s >= 0 as "<H>h <M>m" with H = s div 3600
\* and M = (s mod 3600) div 60, so that 0 <= M < 60 and
\* 3600*H + 60*M <= s < 3600*H + 60*M + 60; 0 gives "0h 0m", 3661 "1h 1m"
\* and 59 "0h 0m"
C9_HoursMinutes ==
    (pc = "ret" /\ fn = "convert_seconds_to_hm") =>
        /\ \E H \in 0..(MaxSeconds \div 3600 + 1), M \in 0..59 :
              /\ 3600 * H + 60 * M <= arg.v
              /\ arg.v < 3600 * H + 60 * M + 60
              /\ H = arg.v \div 3600
              /\ M = (arg.v % 3600) \div 60
              /\ out = Str(ToString(H) \o "h " \o ToString(M) \o "m")
        /\ arg.v = 0 => out = Str("0h 0m")
        /\ arg.v = 3661 => out = Str("1h 1m")
        /\ arg.v = 59 => out = Str("0h 0m")

C9_Witness ==
    /\ pc = "ret"
    /\ fn = "convert_seconds_to_hm"
    /\ arg = Num(3661)
    /\ out = Str("1h 1m")

(***************************************************************************)
(* Direct calls of save_to_csv: every issue of the list has no field at    *)
(* all, or every field, but for one field that is absent, null or present  *)
(* in each of its shapes.                                                  *)
(***************************************************************************)
\* the attribute read of each field that holds an object (lines 353-403)
SubOf ==
    [issuetype |-> "name", status |-> "name", priority |-> "name",
     reporter |-> "displayName", assignee |-> "displayName", resolution |-> "name",
     parent |-> "key", watches |-> "watchCount"]

ScalarFields ==
    {"summary", "description", "created", "updated", "resolutiondate",
     "customfield_13570", "customfield_13751", "customfield_19850", "duedate"}

ListFields == {"labels", "components", "versions", "fixVersions", "issuelinks", "subtasks"}

FieldNames == DOMAIN SubOf \cup ScalarFields \cup ListFields \cup {"comment", "worklog"}

FullComment ==
    Dict([author |-> Dict([displayName |-> Str("Bob")]), created |-> Str("2024-01-01"),
          body |-> Str("hi")])

FullLink == Dict([type |-> Dict([outward |-> Str("blocks"), inward |-> Str("is blocked by")]),
                  outwardIssue |-> FullRef])

FullEntry == Dict([author |-> Dict([displayName |-> Str("A")]),
                   timeSpentSeconds |-> Num(1800)])

\* the shapes of field f, absent and null among them
FieldChoices(f) ==
    CASE f \in DOMAIN SubOf ->
            {Absent, None, EmptyDict, Dict(SubOf[f] :> None),
             Dict(SubOf[f] :> (IF f = "watches" THEN Num(3) ELSE Str("N")))}
      [] f \in ScalarFields -> {Absent, None, Str("x")}
      [] f = "labels" ->
            {Absent, None, EmptyList, List(<<Str("a"), Str("b")>>), List(<<None>>)}
      [] f = "components" ->
            {Absent, None, EmptyList, List(<<Dict([name |-> Str("UI")]), EmptyDict>>),
             List(<<None>>), List(<<Dict([name |-> None])>>)}
      [] f \in {"versions", "fixVersions"} ->
            {Absent} \cup ListArguments(1, VersionChoices)
      [] f = "issuelinks" ->
            {Absent, None, EmptyList, List(<<FullLink, EmptyDict>>),
             List(<<Dict([outwardIssue |-> None])>>)}
      [] f = "subtasks" ->
            {Absent, None, EmptyList, List(<<FullRef, EmptyDict>>),
             List(<<Dict([fields |-> None])>>)}
      [] f = "comment" ->
            {Absent, None, EmptyDict, Dict([comments |-> None]),
             Dict([comments |-> List(<<FullComment, EmptyDict>>)]),
             Dict([comments |-> List(<<Dict([author |-> None])>>)])}
      [] f = "worklog" ->
            {Absent, None, EmptyDict, Dict([worklogs |-> None]),
             Dict([worklogs |-> EmptyList]),
             Dict([worklogs |-> List(<<FullEntry, EmptyDict, FullEntry>>)]),
             Dict([worklogs |-> List(<<Dict([author |-> None])>>)])}

\* the fields of an issue in which every field is present
FullFields ==
    [f \in FieldNames |->
        CASE f \in DOMAIN SubOf -> Dict(SubOf[f] :> (IF f = "watches" THEN Num(3) ELSE Str("N")))
          [] f \in ScalarFields -> Str("x")
          [] f = "labels" -> List(<<Str("a"), Str("b")>>)
          [] f = "components" -> List(<<Dict([name |-> Str("UI")])>>)
          [] f \in {"versions", "fixVersions"} -> List(<<Dict([name |-> Str("1.0")])>>)
          [] f = "issuelinks" -> List(<<FullLink>>)
          [] f = "subtasks" -> List(<<FullRef>>)
          [] f = "comment" -> Dict([comments |-> List(<<FullComment>>)])
          [] f = "worklog" -> Dict([worklogs |-> List(<<FullEntry>>)])]

\* dict d with key k set to x, or without it when x is Absent
With(d, k, x) ==
    IF x.t = "absent" THEN [a \in DOMAIN d \ {k} |-> d[a]]
    ELSE [a \in DOMAIN d \cup {k} |-> IF a = k THEN x ELSE d[a]]

\* the issue with no optional field at all
BareIssue == EmptyDict
FullIssue == Dict([key |-> Str("DHRD-1"), fields |-> Dict(FullFields)])

IssueChoices ==
    {BareIssue, FullIssue, Dict([key |-> None]), Dict([fields |-> None]),
     Dict([key |-> Str("DHRD-2"), fields |-> EmptyDict])}
    \cup UNION {{Dict([key |-> Str("DHRD-3"), fields |-> Dict(With(base, f, x))]) :
                    base \in {<<>>, FullFields}, x \in FieldChoices(f)} : f \in FieldNames}

IssueListInputs ==
    {<<>>}
    \cup {<<x>> : x \in IssueChoices}
    \cup {<<FullIssue, x>> : x \in IssueChoices}
    \cup {<<x, BareIssue>> : x \in IssueChoices}

InitCsv == CallInit({"save_to_csv"} \X {List(l) : l \in IssueListInputs})

CallSaveToCsv == Return("save_to_csv", save_to_csv(arg.v))

NextCsv == CallSaveToCsv

SpecCsv == InitCsv /\ [][NextCsv]_vars

(***************************************************************************)
(* Properties of save_to_csv.                                              *)
(***************************************************************************)
\* the declared columns, in order
Columns ==
    <<"Key", "Type", "Summary", "Description", "Status", "Resolution",
      "Resolution Date", "Release Note", "Priority", "Created", "Updated",
      "Due Date", "Reporter", "Assignee", "Labels", "Components", "Versions",
      "Fix Versions", "Target Version", "Parent Issue", "Watchers", "Issue Links",
      "Subtasks", "Comments", "Module-Feature", "Worklog">>

\* the value of column c in a row
Cell(row, c) == row.v[CHOOSE i \in 1..Len(row.v) : row.v[i][1] = c][2]

\* C7: for every list of issues, one row is written per issue, in order, and
\* every row has exactly the 26 declared columns in the declared order; for an
\* issue with no optional field Status is "", Resolution "Unresolved",
\* Watchers 0 and the list-valued columns ""
C7_EveryRowHasEveryColumn ==
    pc = "ret" =>
        /\ out.t = "list"
        /\ Len(out.v) = Len(arg.v)
        /\ \A i \in 1..Len(out.v) :
              /\ [c \in 1..Len(out.v[i].v) |-> out.v[i].v[c][1]] = Columns
              /\ Cell(out.v[i], "Key") = PyGet(arg.v[i], "key", Str(""))
              /\ arg.v[i] = BareIssue =>
                    /\ Cell(out.v[i], "Status") = Str("")
                    /\ Cell(out.v[i], "Resolution") = Str("Unresolved")
                    /\ Cell(out.v[i], "Watchers") = Num(0)
                    /\ \A c \in {"Labels", "Components", "Versions", "Fix Versions",
                                 "Issue Links", "Subtasks", "Comments"} :
                          Cell(out.v[i], c) = Str("")

====
